---- MODULE Spec2Model ----
(***************************************************************************)
(* The vehicle tools of sportcars-xmcp (get-vehicles, update-vehicles,     *)
(* add-notes, delete-ai-video, delete-vehicle) as a state machine over the *)
(* `vehicles` table, the R2 bucket and the tool invocations in flight.     *)
(* A handler is cut at its awaits: one action per stretch of code between  *)
(* two suspension points.  An external writer (the upstream sync) may act  *)
(* on the table while an invocation is suspended.                          *)
(***************************************************************************)
EXTENDS Integers, Sequences, FiniteSets, TLC

VARIABLES
  table,    \* the vehicles table: row id -> row, for the rows that exist
  bucket,   \* object keys present in the R2 bucket
  now,      \* the clock read by new Date()
  inv,      \* per invocation slot: position, arguments, locals, result
  active,   \* slots that receive a tool call in this behaviour
  ext       \* steps the external writer has taken

vars == <<table, bucket, now, inv, active, ext>>

(***************************************************************************)
(* JavaScript values.  Text is a sequence of one-character strings, so     *)
(* that the empty string, undefined and null are three different values.   *)
(***************************************************************************)
Undef == <<"undefined">>
Null == <<"null">>
UndefN == 0 - 1
NullN == 0 - 2

\* if (s) on a string | null | undefined
TruthyS(s) == s # Undef /\ s # Null /\ s # <<>>
\* if (n) on a number | null | undefined
TruthyN(n) == n # UndefN /\ n # NullN /\ n # 0

(***************************************************************************)
(* Bounds of the model.                                                    *)
(***************************************************************************)
MaxExt == 1       \* steps of the external writer during one behaviour
MaxParams == 2    \* parameters supplied in one get-vehicles call

Procs == {1, 2}

(***************************************************************************)
(* The table.                                                              *)
(***************************************************************************)
TextColumns ==
  {"vin", "stock_number", "make", "model", "colour", "interior_color",
   "description", "ai_description", "new_used", "certified", "dealer_name",
   "tags", "inventory_date", "transmission", "drivetrain_desc", "fuel",
   "body", "notes", "ai_video"}

NumColumns ==
  {"year", "price", "custom_price", "odometer", "deleted_at", "updated_at", "created_at"}

Columns == TextColumns \cup NumColumns

BlankRow == [c \in Columns |-> IF c \in TextColumns THEN Null ELSE NullN]

SeedRow1 ==
  [BlankRow EXCEPT !["vin"] = <<"V", "1">>, !["stock_number"] = <<"S", "1">>,
                   !["make"] = <<"F", "e">>, !["model"] = <<"F", "8">>,
                   !["year"] = 2020, !["price"] = 7, !["odometer"] = 5,
                   !["colour"] = <<"R">>, !["ai_video"] = <<"u">>,
                   !["updated_at"] = 0, !["created_at"] = 0]

SeedRow2 ==
  [BlankRow EXCEPT !["vin"] = <<"V", "1">>,
                   !["make"] = <<"P", "o">>, !["model"] = <<"F", "8">>,
                   !["year"] = 2021, !["notes"] = <<"n">>,
                   !["ai_video"] = <<"u">>, !["updated_at"] = 0, !["created_at"] = 0]

SeedRows == <<SeedRow1, SeedRow2>>

Ids == DOMAIN SeedRows

\* The stores a call can start from: the two seed rows (same VIN, one with a
\* stock number), either of them soft-deleted, or row 1 without a video.
SeedTables ==
  { SeedRows,
    [SeedRows EXCEPT ![1]["deleted_at"] = 0],
    [SeedRows EXCEPT ![2]["deleted_at"] = 0],
    [SeedRows EXCEPT ![1]["ai_video"] = Null] }

ObjectKey(stock) == <<"vehicles/">> \o stock \o <<"/ai-video.mp4">>


(***************************************************************************)
(* Query operators of the store client.                                    *)
(***************************************************************************)
\* .is('deleted_at', null)
Visible(row) == row["deleted_at"] = NullN

LowerChar(c) ==
  CASE c = "F" -> "f" [] c = "P" -> "p" [] c = "V" -> "v" [] c = "S" -> "s"
    [] c = "R" -> "r" [] c = "U" -> "u" [] c = "X" -> "x" [] OTHER -> c

Lower(s) == [k \in 1..Len(s) |-> LowerChar(s[k])]

Contains(hay, needle) ==
  \E k \in 0..(Len(hay) - Len(needle)) : SubSeq(hay, k + 1, k + Len(needle)) = needle

\* .ilike(column, `%${pattern}%`): case-insensitive containment; a null
\* column matches nothing.
ilike(value, pattern) == value # Null /\ Contains(Lower(value), Lower(pattern))

\* The rows of `ids` as the store returns them under .select(columns).
Projection(t, ids, columns) ==
  { [c \in columns \cup {"id"} |-> IF c = "id" THEN i ELSE t[i][c]] : i \in ids }

(***************************************************************************)
(* Process environment and tool arguments.                                 *)
(***************************************************************************)
EnvArgs == {Undef, <<"k">>}

StoreEnvs == [SUPABASE_URL : EnvArgs, SUPABASE_SERVICE_ROLE_KEY : EnvArgs]

R2Envs ==
  [R2_ENDPOINT : EnvArgs, R2_ACCESS_KEY_ID : EnvArgs,
   R2_SECRET_ACCESS_KEY : EnvArgs, R2_BUCKET_NAME : EnvArgs]

\* if (!supabaseUrl || !supabaseKey)
MissingCredentials(e) ==
  ~TruthyS(e.SUPABASE_URL) \/ ~TruthyS(e.SUPABASE_SERVICE_ROLE_KEY)

IdArgs == {UndefN, 0, 1, 2}
VinArgs == {Undef, <<>>, <<"V", "1">>}
StockArgs == {Undef, <<>>, <<"S", "1">>}
MakeArgs == {Undef, <<>>, <<"f", "e">>}
ModelArgs == {Undef, <<"f", "8">>}
NumArgs == {0, 7}
TextArgs == {<<>>, <<"x">>}
NotesArgs == {Undef, Null, <<>>, <<"m">>}

\* The twelve updatable parameters of update-vehicles and their columns.
NumParams == {"price", "customPrice", "odometer"}

TextParams ==
  {"colour", "interiorColor", "description", "aiDescription", "newUsed",
   "certified", "dealerName", "tags", "inventoryDate"}

UpdParams == NumParams \cup TextParams

ColumnOf(f) ==
  CASE f = "customPrice" -> "custom_price"
    [] f = "interiorColor" -> "interior_color"
    [] f = "aiDescription" -> "ai_description"
    [] f = "newUsed" -> "new_used"
    [] f = "dealerName" -> "dealer_name"
    [] f = "inventoryDate" -> "inventory_date"
    [] OTHER -> f

NoFields == [f \in UpdParams |-> IF f \in NumParams THEN UndefN ELSE Undef]

\* The fields of a call: none, any one of the twelve, or all twelve.
UpdFieldChoices ==
  {NoFields}
    \cup UNION { { [NoFields EXCEPT ![f] = v] :
                     v \in IF f \in NumParams THEN NumArgs ELSE TextArgs } : f \in UpdParams }
    \cup { [f \in UpdParams |-> IF f \in NumParams THEN n ELSE x] :
             <<n, x>> \in NumArgs \X TextArgs }

Identifiers == [id : IdArgs, vin : VinArgs, stockNumber : StockArgs]

UpdateTargets ==
  [id : {UndefN, 0, 1}, vin : {Undef, <<"V", "1">>}, stockNumber : {Undef, <<"S", "1">>},
   make : MakeArgs, model : ModelArgs]

Merge(a, b) == [k \in DOMAIN a \cup DOMAIN b |-> IF k \in DOMAIN a THEN a[k] ELSE b[k]]

\* f was passed by the caller (f !== undefined)
Supplied(req, f) == IF f \in NumParams \cup {"id"} THEN req[f] # UndefN ELSE req[f] # Undef

(***************************************************************************)
(* Invocations.                                                            *)
(***************************************************************************)
Res(kind) == [kind |-> kind, rows |-> {}, r2 |-> "none", action |-> "none"]

\* `seen` is the table as the lookup read it, `order` the order in which the
\* store held the rows of a get-vehicles query before .limit / .range,
\* `written` the rows the invocation's write changed; reads, writes and
\* r2calls count the calls issued.
IdleInv ==
  [pc |-> "idle", tool |-> "none", req |-> <<>>, env |-> <<>>,
   updateData |-> <<>>, vehicleIds |-> {}, vehicle |-> <<>>,
   r2DeleteResult |-> "null", result |-> Res("none"),
   reads |-> 0, writes |-> 0, r2calls |-> 0, seen |-> <<>>, order |-> <<>>,
   written |-> {}]

\* Entry of a handler: the arguments and the environment it reads.
Entered(tool, req, e) == [IdleInv EXCEPT !.tool = tool, !.req = req, !.env = e]

\* A handler returning `r`.
Return(v, r) == [v EXCEPT !.pc = "done", !.result = r]

\* The rows a write changed.
Changed(t, u) == {i \in DOMAIN t : i \notin DOMAIN u \/ u[i] # t[i]}

\* Variant: the write replaces the row, so a column that is not in `data`
\* loses its value.
Assign_replace(row, data) ==
  [c \in DOMAIN row |->
     IF c \in DOMAIN data THEN data[c] ELSE IF c \in TextColumns THEN Null ELSE NullN]

\* .update(data) on one row
Assign(row, data) == [c \in DOMAIN row |-> IF c \in DOMAIN data THEN data[c] ELSE row[c]]

\* .update(data).in('id', ids) / .eq('id', id)
UpdateRows(t, ids, data) ==
  [i \in DOMAIN t |-> IF i \in ids THEN Assign(t[i], data) ELSE t[i]]

\* .delete().eq('id', id)
DeleteRows(t, ids) == [i \in DOMAIN t \ ids |-> t[i]]

(***************************************************************************)
(* update-vehicles                                                         *)
(***************************************************************************)
UpdateRequests == { Merge(t, u) : <<t, u>> \in UpdateTargets \X UpdFieldChoices }

\* Variant: a field is copied when it is truthy (if (price)) instead of when
\* it is not undefined.
updateDataOf_truthy(req, ts) ==
  LET fs == {f \in UpdParams : IF f \in NumParams THEN TruthyN(req[f]) ELSE TruthyS(req[f])}
  IN  [c \in {"updated_at"} \cup {ColumnOf(f) : f \in fs} |->
         IF c = "updated_at" THEN ts
         ELSE req[CHOOSE f \in fs : ColumnOf(f) = c]]

\* Variant: updated_at is set to the epoch instead of the clock's reading.
updateDataOf_staleStamp(req, ts) ==
  LET fs == {f \in UpdParams : Supplied(req, f)}
  IN  [c \in {"updated_at"} \cup {ColumnOf(f) : f \in fs} |->
         IF c = "updated_at" THEN 0
         ELSE req[CHOOSE f \in fs : ColumnOf(f) = c]]

\* updateData: updated_at plus one column per supplied field
updateDataOf(req, ts) ==
  LET fs == {f \in UpdParams : Supplied(req, f)}
  IN  [c \in {"updated_at"} \cup {ColumnOf(f) : f \in fs} |->
         IF c = "updated_at" THEN ts
         ELSE req[CHOOSE f \in fs : ColumnOf(f) = c]]

\* Object.keys(updateData).length === 1
NoFieldsToUpdate(data) == Cardinality(DOMAIN data) = 1

\* Variant: the chain has no final else, so a call without criteria runs
\* the query unscoped.
UpdateScope_unscoped(req) ==
  IF TruthyN(req.id) THEN "id"
  ELSE IF TruthyS(req.vin) THEN "vin"
  ELSE IF TruthyS(req.stockNumber) THEN "stock_number"
  ELSE "filter"

\* The branch of the if/else-if chain that scopes the lookup.
UpdateScope(req) ==
  IF TruthyN(req.id) THEN "id"
  ELSE IF TruthyS(req.vin) THEN "vin"
  ELSE IF TruthyS(req.stockNumber) THEN "stock_number"
  ELSE IF TruthyS(req.make) \/ TruthyS(req.model) THEN "filter"
  ELSE "none"

UpdateMatches(req, i, row) ==
  /\ Visible(row)
  /\ CASE UpdateScope(req) = "id" -> i = req.id
       [] UpdateScope(req) = "vin" -> row["vin"] = req.vin
       [] UpdateScope(req) = "stock_number" -> row["stock_number"] = req.stockNumber
       [] UpdateScope(req) = "filter" ->
            /\ TruthyS(req.make) => ilike(row["make"], req.make)
            /\ TruthyS(req.model) => ilike(row["model"], req.model)
       [] OTHER -> FALSE

UpdateColumns == {"year", "make", "model", "vin"}

\* updateVehicles up to the return of the lookup
updateVehicles(req, e, t, ts, readOk) ==
  LET v0 == Entered("update-vehicles", req, e)
      data == updateDataOf(req, ts)
      v1 == [v0 EXCEPT !.updateData = data]
      found == {i \in DOMAIN t : UpdateMatches(req, i, t[i])}
  IN  IF MissingCredentials(e) THEN Return(v0, Res("ConfigError"))
      ELSE IF NoFieldsToUpdate(data) THEN Return(v1, Res("NoFieldsToUpdate"))
      ELSE IF UpdateScope(req) = "none" THEN Return(v1, Res("NoTargetCriteria"))
      ELSE IF ~readOk THEN Return([v1 EXCEPT !.reads = 1], Res("ReadError"))
      ELSE IF found = {} THEN Return([v1 EXCEPT !.reads = 1, !.seen = t], Res("NotFound"))
      ELSE [v1 EXCEPT !.reads = 1, !.seen = t, !.vehicleIds = found, !.pc = "write"]

\* a call of the handler with arguments among `requests`, in an environment
\* among `envs`, the store answering the lookup as `oks` allows
UpdateVehiclesCallOf(p, requests, envs, oks) ==
  /\ p \in active /\ inv[p].pc = "idle"
  /\ \E req \in requests, e \in envs, readOk \in oks :
       /\ inv' = [inv EXCEPT ![p] = updateVehicles(req, e, table, now, readOk)]
       /\ now' = IF MissingCredentials(e) THEN now ELSE now + 1
  /\ UNCHANGED <<table, bucket, active, ext>>

UpdateVehiclesCall(p) == UpdateVehiclesCallOf(p, UpdateRequests, StoreEnvs, BOOLEAN)

\* Variant: the write repeats the filter of the lookup instead of using the
\* captured ids.
WriteTargets_refilter(v, t) == {i \in DOMAIN t : UpdateMatches(v.req, i, t[i])}

\* .in('id', vehicleIds): the rows the write is addressed to
WriteTargets(v, t) == v.vehicleIds \cap DOMAIN t

\* the write of updateVehicles and the formatting of its result, the store
\* answering the write as `oks` allows
UpdateVehiclesWriteOf(p, oks) ==
  /\ inv[p].pc = "write" /\ inv[p].tool = "update-vehicles"
  /\ \E writeOk \in oks :
       LET v == inv[p]
           ids == WriteTargets(v, table)
           t2 == IF writeOk THEN UpdateRows(table, ids, v.updateData) ELSE table
       IN  /\ table' = t2
           /\ inv' = [inv EXCEPT ![p] =
                 Return([v EXCEPT !.writes = 1, !.written = Changed(table, t2)],
                        IF writeOk
                        THEN [Res("Success") EXCEPT !.rows = Projection(t2, ids, UpdateColumns)]
                        ELSE Res("WriteError"))]
  /\ UNCHANGED <<bucket, now, active, ext>>

UpdateVehiclesWrite(p) == UpdateVehiclesWriteOf(p, BOOLEAN)

(***************************************************************************)
(* add-notes, delete-ai-video, delete-vehicle: one row by one identifier   *)
(***************************************************************************)
\* Variant: the count keeps every entry that is not null, so an identifier
\* left undefined is counted.
identifierCount_notNull(req) ==
  (IF req.id # NullN THEN 1 ELSE 0) + (IF req.vin # Null THEN 1 ELSE 0)
    + (IF req.stockNumber # Null THEN 1 ELSE 0)

\* [id, vin, stockNumber].filter(Boolean).length
identifierCount(req) ==
  (IF TruthyN(req.id) THEN 1 ELSE 0) + (IF TruthyS(req.vin) THEN 1 ELSE 0)
    + (IF TruthyS(req.stockNumber) THEN 1 ELSE 0)

\* if (id) .eq('id') else if (vin) .eq('vin') else if (stockNumber) .eq('stock_number')
IdentifierMatches(req, i, row) ==
  IF TruthyN(req.id) THEN i = req.id
  ELSE IF TruthyS(req.vin) THEN row["vin"] = req.vin
  ELSE IF TruthyS(req.stockNumber) THEN row["stock_number"] = req.stockNumber
  ELSE TRUE

\* Variant: without the length > 1 check, the first row returned is used.
SingleRow_first(v, t, found, columns, readOk) ==
  IF ~readOk THEN Return([v EXCEPT !.reads = 1], Res("ReadError"))
  ELSE IF found = {} THEN Return([v EXCEPT !.reads = 1, !.seen = t], Res("NotFound"))
  ELSE [v EXCEPT !.reads = 1, !.seen = t, !.vehicleIds = found,
                 !.vehicle = CHOOSE r \in Projection(t, found, columns) : TRUE]

\* the outcome of the awaited lookup of a single-row tool
SingleRow(v, t, found, columns, readOk) ==
  IF ~readOk THEN Return([v EXCEPT !.reads = 1], Res("ReadError"))
  ELSE IF found = {} THEN Return([v EXCEPT !.reads = 1, !.seen = t], Res("NotFound"))
  ELSE IF Cardinality(found) > 1
       THEN Return([v EXCEPT !.reads = 1, !.seen = t], Res("MultipleMatches"))
  ELSE [v EXCEPT !.reads = 1, !.seen = t, !.vehicleIds = found,
                 !.vehicle = CHOOSE r \in Projection(t, found, columns) : TRUE]

\* .update(data).eq('id', id).select().single(): no row left to return is an error
SingleWrite(t, id, data, writeOk) ==
  IF writeOk /\ id \in DOMAIN t THEN UpdateRows(t, {id}, data) ELSE t

SingleWritten(t, id, writeOk) == writeOk /\ id \in DOMAIN t

NotesRequests == { Merge(i, [notes |-> n]) : <<i, n>> \in Identifiers \X NotesArgs }

NotesColumns == {"year", "make", "model", "vin", "stock_number", "notes"}

\* Variant: the notes argument is validated after the lookup has been awaited.
addNotes_lateNotesCheck(req, e, t, readOk) ==
  LET v0 == Entered("add-notes", req, e)
      found == {i \in DOMAIN t : Visible(t[i]) /\ IdentifierMatches(req, i, t[i])}
      v1 == SingleRow(v0, t, found, NotesColumns, readOk)
  IN  IF MissingCredentials(e) THEN Return(v0, Res("ConfigError"))
      ELSE IF identifierCount(req) = 0 THEN Return(v0, Res("NoIdentifier"))
      ELSE IF identifierCount(req) > 1 THEN Return(v0, Res("AmbiguousIdentifier"))
      ELSE IF req.notes = Undef THEN Return([v0 EXCEPT !.reads = 1], Res("MissingNotes"))
      ELSE IF v1.pc = "done" THEN v1
      ELSE [v1 EXCEPT !.pc = "write"]

\* addNotes up to the return of the lookup
addNotes(req, e, t, readOk) ==
  LET v0 == Entered("add-notes", req, e)
      found == {i \in DOMAIN t : Visible(t[i]) /\ IdentifierMatches(req, i, t[i])}
      v1 == SingleRow(v0, t, found, NotesColumns, readOk)
  IN  IF MissingCredentials(e) THEN Return(v0, Res("ConfigError"))
      ELSE IF identifierCount(req) = 0 THEN Return(v0, Res("NoIdentifier"))
      ELSE IF identifierCount(req) > 1 THEN Return(v0, Res("AmbiguousIdentifier"))
      ELSE IF req.notes = Undef THEN Return(v0, Res("MissingNotes"))
      ELSE IF v1.pc = "done" THEN v1
      ELSE [v1 EXCEPT !.pc = "write"]

AddNotesCall(p) ==
  /\ p \in active /\ inv[p].pc = "idle"
  /\ \E req \in NotesRequests, e \in StoreEnvs, readOk \in BOOLEAN :
       inv' = [inv EXCEPT ![p] = addNotes(req, e, table, readOk)]
  /\ UNCHANGED <<table, bucket, now, active, ext>>

\* Variant: only null clears; the empty string is stored as given.
notesValue_keepEmpty(notes) == IF notes = Null THEN Null ELSE notes

\* notes === null || notes === '' ? null : notes
notesValue(notes) == IF notes = Null \/ notes = <<>> THEN Null ELSE notes

AddNotesWrite(p) ==
  /\ inv[p].pc = "write" /\ inv[p].tool = "add-notes"
  /\ \E writeOk \in BOOLEAN :
       LET v == inv[p]
           nv == notesValue(v.req.notes)
           data == [notes |-> nv, updated_at |-> now]
           t2 == SingleWrite(table, v.vehicle.id, data, writeOk)
           action == IF nv = Null THEN "deleted"
                     ELSE IF TruthyS(v.vehicle.notes) THEN "updated" ELSE "added"
       IN  /\ table' = t2
           /\ inv' = [inv EXCEPT ![p] =
                 Return([v EXCEPT !.writes = 1, !.updateData = data,
                                  !.written = Changed(table, t2)],
                        IF SingleWritten(table, v.vehicle.id, writeOk)
                        THEN [Res("Success") EXCEPT !.action = action]
                        ELSE Res("WriteError"))]
  /\ now' = now + 1
  /\ UNCHANGED <<bucket, active, ext>>

VideoColumns == {"year", "make", "model", "vin", "stock_number", "ai_video"}

\* if (r2Endpoint && r2AccessKeyId && r2SecretAccessKey && r2BucketName)
R2Configured(e) ==
  /\ TruthyS(e.R2_ENDPOINT) /\ TruthyS(e.R2_ACCESS_KEY_ID)
  /\ TruthyS(e.R2_SECRET_ACCESS_KEY) /\ TruthyS(e.R2_BUCKET_NAME)

\* Variant: the handler does not test vehicle.stock_number and derives the
\* object key from whatever the column holds.
deleteAiVideo_noStockCheck(req, e, t, readOk) ==
  LET v0 == Entered("delete-ai-video", req, e)
      found == {i \in DOMAIN t : Visible(t[i]) /\ IdentifierMatches(req, i, t[i])}
      v1 == SingleRow(v0, t, found, VideoColumns, readOk)
  IN  IF MissingCredentials(e) THEN Return(v0, Res("ConfigError"))
      ELSE IF identifierCount(req) = 0 THEN Return(v0, Res("NoIdentifier"))
      ELSE IF identifierCount(req) > 1 THEN Return(v0, Res("AmbiguousIdentifier"))
      ELSE IF v1.pc = "done" THEN v1
      ELSE IF ~TruthyS(v1.vehicle.ai_video) THEN Return(v1, Res("NoVideo"))
      ELSE IF R2Configured(e) THEN [v1 EXCEPT !.pc = "r2"]
      ELSE [v1 EXCEPT !.pc = "write"]

\* Variant: the handler does not test vehicle.ai_video before cleaning up.
deleteAiVideo_noVideoCheck(req, e, t, readOk) ==
  LET v0 == Entered("delete-ai-video", req, e)
      found == {i \in DOMAIN t : Visible(t[i]) /\ IdentifierMatches(req, i, t[i])}
      v1 == SingleRow(v0, t, found, VideoColumns, readOk)
  IN  IF MissingCredentials(e) THEN Return(v0, Res("ConfigError"))
      ELSE IF identifierCount(req) = 0 THEN Return(v0, Res("NoIdentifier"))
      ELSE IF identifierCount(req) > 1 THEN Return(v0, Res("AmbiguousIdentifier"))
      ELSE IF v1.pc = "done" THEN v1
      ELSE IF ~TruthyS(v1.vehicle.stock_number) THEN Return(v1, Res("NoStockNumber"))
      ELSE IF R2Configured(e) THEN [v1 EXCEPT !.pc = "r2"]
      ELSE [v1 EXCEPT !.pc = "write"]

\* deleteAiVideo up to the first await after the lookup
deleteAiVideo(req, e, t, readOk) ==
  LET v0 == Entered("delete-ai-video", req, e)
      found == {i \in DOMAIN t : Visible(t[i]) /\ IdentifierMatches(req, i, t[i])}
      v1 == SingleRow(v0, t, found, VideoColumns, readOk)
  IN  IF MissingCredentials(e) THEN Return(v0, Res("ConfigError"))
      ELSE IF identifierCount(req) = 0 THEN Return(v0, Res("NoIdentifier"))
      ELSE IF identifierCount(req) > 1 THEN Return(v0, Res("AmbiguousIdentifier"))
      ELSE IF v1.pc = "done" THEN v1
      ELSE IF ~TruthyS(v1.vehicle.ai_video) THEN Return(v1, Res("NoVideo"))
      ELSE IF ~TruthyS(v1.vehicle.stock_number) THEN Return(v1, Res("NoStockNumber"))
      ELSE IF R2Configured(e) THEN [v1 EXCEPT !.pc = "r2"]
      ELSE [v1 EXCEPT !.pc = "write"]

DeleteAiVideoCall(p) ==
  /\ p \in active /\ inv[p].pc = "idle"
  /\ \E req \in Identifiers, se \in StoreEnvs, re \in R2Envs, readOk \in BOOLEAN :
       inv' = [inv EXCEPT ![p] = deleteAiVideo(req, Merge(se, re), table, readOk)]
  /\ UNCHANGED <<table, bucket, now, active, ext>>

\* deleteFromR2: the object is removed, or the call fails and removes nothing
deleteFromR2(b, objectKey, sendOk) == IF sendOk THEN b \ {objectKey} ELSE b

DeleteAiVideoR2(p) ==
  /\ inv[p].pc = "r2" /\ inv[p].tool = "delete-ai-video"
  /\ \E sendOk \in BOOLEAN :
       /\ bucket' = deleteFromR2(bucket, ObjectKey(inv[p].vehicle.stock_number), sendOk)
       /\ inv' = [inv EXCEPT ![p] =
             [@ EXCEPT !.pc = "write", !.r2calls = 1,
                       !.r2DeleteResult = IF sendOk THEN "success" ELSE "failure"]]
  /\ UNCHANGED <<table, now, active, ext>>

\* the lines of the response that report the object deletion
R2Report(r2DeleteResult) ==
  CASE r2DeleteResult = "success" -> "deleted"
    [] r2DeleteResult = "failure" -> "failed"
    [] OTHER -> "skipped"

DeleteAiVideoWrite(p) ==
  /\ inv[p].pc = "write" /\ inv[p].tool = "delete-ai-video"
  /\ \E writeOk \in BOOLEAN :
       LET v == inv[p]
           data == [ai_video |-> Null, updated_at |-> now]
           t2 == SingleWrite(table, v.vehicle.id, data, writeOk)
       IN  /\ table' = t2
           /\ inv' = [inv EXCEPT ![p] =
                 Return([v EXCEPT !.writes = 1, !.updateData = data,
                                  !.written = Changed(table, t2)],
                        IF SingleWritten(table, v.vehicle.id, writeOk)
                        THEN [Res("Success") EXCEPT !.r2 = R2Report(v.r2DeleteResult)]
                        ELSE Res("WriteError"))]
  /\ now' = now + 1
  /\ UNCHANGED <<bucket, active, ext>>

DeleteRequests == [vin : VinArgs, stockNumber : StockArgs]

DeleteColumns == {"year", "make", "model", "vin", "stock_number"}

\* if (vin) .eq('vin') else if (stockNumber) .eq('stock_number')
DeleteMatches(req, row) ==
  IF TruthyS(req.vin) THEN row["vin"] = req.vin
  ELSE IF TruthyS(req.stockNumber) THEN row["stock_number"] = req.stockNumber
  ELSE TRUE

\* Variant: the lookup carries the .is('deleted_at', null) of the other tools.
deleteVehicle_visibleOnly(req, e, t, readOk) ==
  LET v0 == Entered("delete-vehicle", req, e)
      found == {i \in DOMAIN t : Visible(t[i]) /\ DeleteMatches(req, t[i])}
      v1 == SingleRow(v0, t, found, DeleteColumns, readOk)
  IN  IF MissingCredentials(e) THEN Return(v0, Res("ConfigError"))
      ELSE IF ~TruthyS(req.vin) /\ ~TruthyS(req.stockNumber) THEN Return(v0, Res("NoIdentifier"))
      ELSE IF TruthyS(req.vin) /\ TruthyS(req.stockNumber)
           THEN Return(v0, Res("AmbiguousIdentifier"))
      ELSE IF v1.pc = "done" THEN v1
      ELSE [v1 EXCEPT !.pc = "write"]

\* deleteVehicle up to the return of the lookup
deleteVehicle(req, e, t, readOk) ==
  LET v0 == Entered("delete-vehicle", req, e)
      found == {i \in DOMAIN t : DeleteMatches(req, t[i])}
      v1 == SingleRow(v0, t, found, DeleteColumns, readOk)
  IN  IF MissingCredentials(e) THEN Return(v0, Res("ConfigError"))
      ELSE IF ~TruthyS(req.vin) /\ ~TruthyS(req.stockNumber) THEN Return(v0, Res("NoIdentifier"))
      ELSE IF TruthyS(req.vin) /\ TruthyS(req.stockNumber)
           THEN Return(v0, Res("AmbiguousIdentifier"))
      ELSE IF v1.pc = "done" THEN v1
      ELSE [v1 EXCEPT !.pc = "write"]

DeleteVehicleCall(p) ==
  /\ p \in active /\ inv[p].pc = "idle"
  /\ \E req \in DeleteRequests, e \in StoreEnvs, readOk \in BOOLEAN :
       inv' = [inv EXCEPT ![p] = deleteVehicle(req, e, table, readOk)]
  /\ UNCHANGED <<table, bucket, now, active, ext>>

DeleteVehicleWrite(p) ==
  /\ inv[p].pc = "write" /\ inv[p].tool = "delete-vehicle"
  /\ \E writeOk \in BOOLEAN :
       LET v == inv[p]
           t2 == IF writeOk THEN DeleteRows(table, {v.vehicle.id}) ELSE table
       IN  /\ table' = t2
           /\ inv' = [inv EXCEPT ![p] =
                 Return([v EXCEPT !.writes = 1, !.written = Changed(table, t2)],
                        IF writeOk THEN Res("Success") ELSE Res("WriteError"))]
  /\ UNCHANGED <<bucket, now, active, ext>>

(***************************************************************************)
(* get-vehicles.  The repository holds three versions of the handler: the  *)
(* one with filters, sorting and limit, the one with filters only, and the *)
(* paged one the README documents.                                         *)
(***************************************************************************)
TextFilters ==
  {"make", "model", "colour", "interiorColor", "newUsed", "certified",
   "transmission", "drivetrain", "fuel", "body", "dealerName"}

NumFilters == {"year", "minYear", "maxYear", "minPrice", "maxPrice", "maxOdometer"}

FilterParams == TextFilters \cup NumFilters \cup {"hasPrice"}

GetParams == FilterParams \cup {"sortBy", "sortOrder", "limit"}

GetNumParams == NumFilters \cup {"limit"}

FilterColumn(f) ==
  CASE f = "drivetrain" -> "drivetrain_desc"
    [] f \in {"year", "minYear", "maxYear"} -> "year"
    [] f \in {"minPrice", "maxPrice", "hasPrice"} -> "price"
    [] f = "maxOdometer" -> "odometer"
    [] OTHER -> ColumnOf(f)

GetArgs(f) ==
  CASE f = "make" -> MakeArgs \ {Undef}
    [] f = "model" -> ModelArgs \ {Undef}
    [] f \in TextFilters \ {"make", "model"} -> {<<"r">>}
    [] f = "year" -> {0, 2020}
    [] f = "minYear" -> {0, 2021}
    [] f = "maxYear" -> {2020}
    [] f = "minPrice" -> {0, 9}
    [] f = "maxPrice" -> {7}
    [] f = "maxOdometer" -> {0, 5}
    [] f = "hasPrice" -> {<<"true">>, <<"false">>}
    [] f = "sortBy" -> {<<"updated_at">>, <<"created_at">>, <<"year">>, <<"price">>, <<"odometer">>}
    [] f = "sortOrder" -> {<<"asc">>, <<"desc">>}
    [] f = "limit" -> {0, 1, 2}

NoParams(ps) == [f \in ps |-> IF f \in GetNumParams THEN UndefN ELSE Undef]

RECURSIVE ParamChoices(_, _)
ParamChoices(ps, k) ==
  IF k = 0 THEN {NoParams(ps)}
  ELSE LET P == ParamChoices(ps, k - 1)
       IN  P \cup UNION { { [u EXCEPT ![f] = v] : v \in GetArgs(f) } : <<u, f>> \in P \X ps }

GetRequests == ParamChoices(GetParams, MaxParams)

FilterRequests == ParamChoices(FilterParams, MaxParams)

PagedRequests == [limit : {UndefN, 1, 2}, offset : {UndefN, 0, 1}]

\* the predicate one filter parameter adds to the query, if the handler adds one
FilterHolds(req, f, row) ==
  LET col == row[FilterColumn(f)]
  IN  CASE f \in TextFilters -> (TruthyS(req[f]) => ilike(col, req[f]))
        [] f = "year" -> (TruthyN(req[f]) => (col # NullN /\ col = req[f]))
        [] f = "minYear" -> (TruthyN(req[f]) => (col # NullN /\ col >= req[f]))
        [] f = "maxYear" -> (TruthyN(req[f]) => (col # NullN /\ col <= req[f]))
        [] f = "minPrice" -> (req[f] # UndefN => (col # NullN /\ col >= req[f]))
        [] f \in {"maxPrice", "maxOdometer"} ->
             (req[f] # UndefN => (col # NullN /\ col <= req[f]))
        [] f = "hasPrice" ->
             (req[f] # Undef => (IF req[f] = <<"true">> THEN col # NullN ELSE col = NullN))

GetMatches(req, row) == Visible(row) /\ \A f \in FilterParams : FilterHolds(req, f, row)

\* the orders in which the store may return the rows `ids`
Orderings(ids) ==
  {s \in [1..Cardinality(ids) -> ids] : \A a, b \in 1..Cardinality(ids) : a # b => s[a] # s[b]}

\* .order(sortBy, { ascending }): nulls sort as larger than every value
OrderedBy(t, s, column, ascending) ==
  \A a \in 1..(Len(s) - 1) :
    LET x == t[s[a]][column]
        y == t[s[a + 1]][column]
    IN  /\ IF ascending THEN (x = NullN => y = NullN) ELSE (y = NullN => x = NullN)
        /\ (x # NullN /\ y # NullN) => (IF ascending THEN x <= y ELSE x >= y)

\* .range(from, to) / .limit(n) on the returned order
Range(s, from, to) == SubSeq(s, from + 1, IF to + 1 > Len(s) THEN Len(s) ELSE to + 1)

RowsOf(t, s) == [k \in 1..Len(s) |-> Merge([id |-> s[k]], t[s[k]])]

\* the result of a read over the rows in order `all` that returned the rows `s`
Fetched(v, t, all, s, readOk) ==
  IF ~readOk THEN Return([v EXCEPT !.reads = 1], Res("ReadError"))
  ELSE IF Len(s) = 0
       THEN Return([v EXCEPT !.reads = 1, !.seen = t, !.order = all], Res("NotFound"))
  ELSE Return([v EXCEPT !.reads = 1, !.seen = t, !.order = all],
              [Res("Found") EXCEPT !.rows = RowsOf(t, s)])

\* getVehicles with filters, sorting and limit
getVehicles(req, e, t, s, readOk) ==
  LET v0 == Entered("get-vehicles", req, e)
  IN  IF MissingCredentials(e) THEN Return(v0, Res("ConfigError"))
      ELSE Fetched(v0, t, s, IF TruthyN(req.limit) THEN Range(s, 0, req.limit - 1) ELSE s, readOk)

\* a call of the handler with arguments among `requests`
GetVehiclesOf(p, requests) ==
  /\ p \in active /\ inv[p].pc = "idle"
  /\ \E req \in requests, e \in StoreEnvs, readOk \in BOOLEAN :
       \E s \in Orderings({i \in DOMAIN table : GetMatches(req, table[i])}) :
         /\ TruthyS(req.sortBy) =>
              OrderedBy(table, s, req.sortBy[1], IF TruthyS(req.sortOrder)
                                                 THEN req.sortOrder = <<"asc">> ELSE FALSE)
         /\ inv' = [inv EXCEPT ![p] = getVehicles(req, e, table, s, readOk)]
  /\ UNCHANGED <<table, bucket, now, active, ext>>

GetVehicles(p) == GetVehiclesOf(p, GetRequests)

\* getVehicles with filters only
getVehiclesFilters(req, e, t, s, readOk) ==
  LET v0 == Entered("get-vehicles-filters", req, e)
  IN  IF MissingCredentials(e) THEN Return(v0, Res("ConfigError"))
      ELSE Fetched(v0, t, s, s, readOk)

\* a call of the handler with arguments among `requests`
GetVehiclesFiltersOf(p, requests) ==
  /\ p \in active /\ inv[p].pc = "idle"
  /\ \E req \in requests, e \in StoreEnvs, readOk \in BOOLEAN :
       \E s \in Orderings({i \in DOMAIN table : GetMatches(req, table[i])}) :
         inv' = [inv EXCEPT ![p] = getVehiclesFilters(req, e, table, s, readOk)]
  /\ UNCHANGED <<table, bucket, now, active, ext>>

GetVehiclesFilters(p) == GetVehiclesFiltersOf(p, FilterRequests)

DefaultLimit == 5
DefaultOffset == 0

\* getVehicles({ limit = 5, offset = 0 }): every row of the table, paged
getVehiclesPaged(req, e, t, s, readOk) ==
  LET v0 == Entered("get-vehicles-paged", req, e)
      limit == IF req.limit = UndefN THEN DefaultLimit ELSE req.limit
      offset == IF req.offset = UndefN THEN DefaultOffset ELSE req.offset
  IN  IF MissingCredentials(e) THEN Return(v0, Res("ConfigError"))
      ELSE Fetched(v0, t, s, Range(s, offset, offset + limit - 1), readOk)

GetVehiclesPaged(p) ==
  /\ p \in active /\ inv[p].pc = "idle"
  /\ \E req \in PagedRequests, e \in StoreEnvs, readOk \in BOOLEAN :
       \E s \in Orderings(DOMAIN table) :
         inv' = [inv EXCEPT ![p] = getVehiclesPaged(req, e, table, s, readOk)]
  /\ UNCHANGED <<table, bucket, now, active, ext>>

(***************************************************************************)
(* The external writer (the upstream sync, or any other client of the      *)
(* store) acting while an invocation is suspended between its lookup and   *)
(* its write.                                                              *)
(***************************************************************************)
InFlight == \E p \in Procs : inv[p].pc \in {"r2", "write"}

ExtStep(t2) ==
  /\ InFlight /\ ext < MaxExt
  /\ table' = t2
  /\ ext' = ext + 1
  /\ UNCHANGED <<bucket, now, inv, active>>

\* the sync marks a row soft-deleted
ExtSoftDelete ==
  \E i \in DOMAIN table :
    /\ Visible(table[i])
    /\ ExtStep([table EXCEPT ![i]["deleted_at"] = now])

\* the sync removes a row
ExtRemove == \E i \in DOMAIN table : ExtStep(DeleteRows(table, {i}))

\* the sync rewrites the make of a row
ExtSetMake ==
  \E i \in DOMAIN table :
    /\ table[i]["make"] # <<"F", "e">>
    /\ ExtStep([table EXCEPT ![i]["make"] = <<"F", "e">>])

Init ==
  /\ table \in SeedTables
  /\ bucket = {ObjectKey(<<"S", "1">>)}
  /\ now = 1
  /\ inv = [p \in Procs |-> IdleInv]
  /\ active = {1}
  /\ ext = 0

Next ==
  \/ \E p \in Procs : UpdateVehiclesCall(p)
  \/ \E p \in Procs : UpdateVehiclesWrite(p)
  \/ \E p \in Procs : AddNotesCall(p)
  \/ \E p \in Procs : AddNotesWrite(p)
  \/ \E p \in Procs : DeleteAiVideoCall(p)
  \/ \E p \in Procs : DeleteAiVideoR2(p)
  \/ \E p \in Procs : DeleteAiVideoWrite(p)
  \/ \E p \in Procs : DeleteVehicleCall(p)
  \/ \E p \in Procs : DeleteVehicleWrite(p)
  \/ \E p \in Procs : GetVehicles(p)
  \/ \E p \in Procs : GetVehiclesFilters(p)
  \/ \E p \in Procs : GetVehiclesPaged(p)
  \/ ExtSoftDelete
  \/ ExtRemove
  \/ ExtSetMake

Spec == Init /\ [][Next]_vars

(***************************************************************************)
(* Two calls of delete-ai-video in sequence: once the first call has       *)
(* succeeded, the tool is called again in the same process environment,    *)
(* with no other writer of the store.                                      *)
(***************************************************************************)
DeleteAiVideoAgain ==
  /\ inv[1].tool = "delete-ai-video" /\ inv[1].pc = "done"
  /\ inv[1].result.kind = "Success"
  /\ inv[2].pc = "idle"
  /\ \E req \in Identifiers, readOk \in BOOLEAN :
       inv' = [inv EXCEPT ![2] = deleteAiVideo(req, inv[1].env, table, readOk)]
  /\ active' = active \cup {2}
  /\ UNCHANGED <<table, bucket, now, ext>>

NextTwice ==
  \/ DeleteAiVideoCall(1)
  \/ \E p \in Procs : DeleteAiVideoR2(p)
  \/ \E p \in Procs : DeleteAiVideoWrite(p)
  \/ DeleteAiVideoAgain

SpecTwice == Init /\ [][NextTwice]_vars

(***************************************************************************)
(* get-vehicles on a table of more rows than the documented default page.  *)
(***************************************************************************)
PagingRows == [i \in 1..(DefaultLimit + 1) |-> SeedRow1]

\* calls that pass no filter and no sorting
LimitRequests == { [NoParams(GetParams) EXCEPT !["limit"] = l] : l \in GetArgs("limit") \cup {UndefN} }

InitPaging ==
  /\ table = PagingRows
  /\ bucket = {}
  /\ now = 1
  /\ inv = [p \in Procs |-> IdleInv]
  /\ active = {1}
  /\ ext = 0

NextPaging ==
  \/ \E p \in Procs : GetVehiclesOf(p, LimitRequests)
  \/ \E p \in Procs : GetVehiclesFiltersOf(p, {NoParams(FilterParams)})
  \/ \E p \in Procs : GetVehiclesPaged(p)

SpecPaging == InitPaging /\ [][NextPaging]_vars

(***************************************************************************)
(* Two update-vehicles invocations in flight at once, against a store that *)
(* answers every call: their lookups and writes interleave in any order.   *)
(***************************************************************************)
ConcurrentTargets ==
  { [id |-> 1, vin |-> Undef, stockNumber |-> Undef, make |-> Undef, model |-> Undef],
    [id |-> UndefN, vin |-> <<"V", "1">>, stockNumber |-> Undef, make |-> Undef, model |-> Undef],
    [id |-> UndefN, vin |-> Undef, stockNumber |-> Undef, make |-> Undef, model |-> <<"f", "8">>] }

ConcurrentFields ==
  { [NoFields EXCEPT !["price"] = n, !["colour"] = x] :
      <<n, x>> \in ({UndefN} \cup NumArgs) \X {Undef, <<"x">>} } \ {NoFields}

ConcurrentRequests == { Merge(t, u) : <<t, u>> \in ConcurrentTargets \X ConcurrentFields }

ConfiguredEnvs == {e \in StoreEnvs : ~MissingCredentials(e)}

InitConcurrent ==
  /\ table \in SeedTables
  /\ bucket = {ObjectKey(<<"S", "1">>)}
  /\ now = 1
  /\ inv = [p \in Procs |-> IdleInv]
  /\ active = Procs
  /\ ext = 0

NextConcurrent ==
  \/ \E p \in Procs : UpdateVehiclesCallOf(p, ConcurrentRequests, ConfiguredEnvs, {TRUE})
  \/ \E p \in Procs : UpdateVehiclesWriteOf(p, {TRUE})

SpecConcurrent == InitConcurrent /\ [][NextConcurrent]_vars

(***************************************************************************)
(* Properties.                                                             *)
(***************************************************************************)
GetTools == {"get-vehicles", "get-vehicles-filters", "get-vehicles-paged"}

NotesOrVideo == {"add-notes", "delete-ai-video"}

SingleRowTools == {"add-notes", "delete-ai-video", "delete-vehicle"}

Called(p) == inv[p].pc # "idle"

Done(p) == inv[p].pc = "done"

Configured(p) == Called(p) /\ ~MissingCredentials(inv[p].env)

\* the lookup of p has returned rows (possibly none) without a store error
Looked(p) == inv[p].reads = 1 /\ inv[p].result.kind # "ReadError"

\* identifiers passed by the caller, whatever their value
SuppliedIds(req) ==
  {f \in DOMAIN req \cap {"id", "vin", "stockNumber"} : Supplied(req, f)}

NoIO(p) ==
  /\ inv[p].reads = 0 /\ inv[p].writes = 0 /\ inv[p].r2calls = 0
  /\ inv[p].written = {}

\* C1: no soft-deleted row appears in a get-vehicles result, and the lookups
\* of update-vehicles, add-notes and delete-ai-video match no row that is
\* soft-deleted at lookup time (a soft-deleted target gives not-found).
C1_SoftDeletedNeverRead ==
  \A p \in Procs :
    /\ (inv[p].tool \in GetTools /\ inv[p].result.kind = "Found") =>
         \A k \in 1..Len(inv[p].result.rows) : inv[p].result.rows[k]["deleted_at"] = NullN
    /\ (inv[p].tool \in NotesOrVideo \cup {"update-vehicles"} /\ Looked(p)) =>
         /\ \A i \in inv[p].vehicleIds : Visible(inv[p].seen[i])
         /\ (/\ SuppliedIds(inv[p].req) = {"id"}
             /\ inv[p].req.id \in DOMAIN inv[p].seen
             /\ ~Visible(inv[p].seen[inv[p].req.id])) => inv[p].result.kind = "NotFound"

\* C2: with credentials configured, add-notes and delete-ai-video without id,
\* vin and stockNumber, and delete-vehicle without vin and stockNumber, end
\* with NoIdentifier.
C2_NoIdentifier ==
  \A p \in Procs :
    (Configured(p) /\ inv[p].tool \in SingleRowTools /\ SuppliedIds(inv[p].req) = {}) =>
      (Done(p) /\ inv[p].result.kind = "NoIdentifier")

C2_Witness ==
  \E p \in Procs :
    /\ Configured(p) /\ inv[p].tool = "add-notes" /\ SuppliedIds(inv[p].req) = {}
    /\ inv[p].req.notes = <<"m">>
    /\ Done(p) /\ inv[p].result.kind = "NoIdentifier"

\* C3: with credentials configured, add-notes, delete-ai-video and
\* delete-vehicle called with two or more identifiers supplied, whatever
\* their values, end with AmbiguousIdentifier and never proceed.
C3_AmbiguousIdentifier ==
  \A p \in Procs :
    (/\ Configured(p) /\ inv[p].tool \in SingleRowTools
     /\ Cardinality(SuppliedIds(inv[p].req)) >= 2) =>
      (Done(p) /\ inv[p].result.kind = "AmbiguousIdentifier")

\* C4: an invocation that ends in a configuration error or a validation
\* error has issued no read, no write and no object-store call.
RejectedKinds ==
  {"ConfigError", "NoIdentifier", "AmbiguousIdentifier", "NoFieldsToUpdate",
   "NoTargetCriteria", "MissingNotes"}

C4_ChecksBeforeIO ==
  \A p \in Procs : inv[p].result.kind \in RejectedKinds => NoIO(p)

C4_Witness ==
  \E p \in Procs :
    /\ inv[p].tool = "delete-vehicle" /\ Done(p)
    /\ inv[p].req.vin = <<"V", "1">> /\ inv[p].req.stockNumber = <<"S", "1">>
    /\ inv[p].result.kind = "AmbiguousIdentifier" /\ NoIO(p)

\* C5: with credentials configured, update-vehicles returns NoFieldsToUpdate
\* exactly when none of the twelve updatable fields is supplied, and then no
\* row is read or written.
C5_NoFieldsToUpdate ==
  \A p \in Procs :
    (Configured(p) /\ inv[p].tool = "update-vehicles") =>
      IF \A f \in UpdParams : ~Supplied(inv[p].req, f)
      THEN Done(p) /\ inv[p].result.kind = "NoFieldsToUpdate" /\ NoIO(p)
      ELSE inv[p].result.kind # "NoFieldsToUpdate"

C5_Witness ==
  \E p \in Procs :
    /\ Configured(p) /\ inv[p].tool = "update-vehicles"
    /\ \A f \in UpdParams : ~Supplied(inv[p].req, f)
    /\ inv[p].req.id = 1 /\ inv[p].req.make = <<"f", "e">>
    /\ inv[p].result.kind = "NoFieldsToUpdate"

\* the rows of t that an identifier or the make/model filter passed in req designates
MatchedBySupplied(req, t) ==
  {i \in DOMAIN t :
     \/ req.id # UndefN /\ i = req.id
     \/ req.vin # Undef /\ t[i]["vin"] = req.vin
     \/ req.stockNumber # Undef /\ t[i]["stock_number"] = req.stockNumber
     \/ /\ req.make # Undef \/ req.model # Undef
        /\ req.make # Undef => ilike(t[i]["make"], req.make)
        /\ req.model # Undef => ilike(t[i]["model"], req.model)}

\* C6: update-vehicles with a field to update but no identifier and no
\* make/model filter ends with NoTargetCriteria and modifies no row; a
\* successful update-vehicles modifies only rows that the supplied
\* identifier or filter matched at lookup time.
C6_NeverAllRows ==
  \A p \in Procs :
    (Configured(p) /\ inv[p].tool = "update-vehicles") =>
      /\ (/\ \E f \in UpdParams : Supplied(inv[p].req, f)
          /\ \A f \in {"id", "vin", "stockNumber", "make", "model"} : ~Supplied(inv[p].req, f))
           => (Done(p) /\ inv[p].result.kind = "NoTargetCriteria" /\ NoIO(p))
      /\ inv[p].result.kind = "Success" =>
           inv[p].written \subseteq MatchedBySupplied(inv[p].req, inv[p].seen)

C6_Witness ==
  \E p \in Procs :
    /\ Configured(p) /\ inv[p].tool = "update-vehicles"
    /\ inv[p].req.price = 7
    /\ \A f \in {"id", "vin", "stockNumber", "make", "model"} : ~Supplied(inv[p].req, f)
    /\ inv[p].result.kind = "NoTargetCriteria" /\ inv[p].written = {}

\* the scope of the lookup as C7 words it: the first identifier present, else the filter
PresentScope(req) ==
  IF req.id # UndefN THEN "id"
  ELSE IF req.vin # Undef THEN "vin"
  ELSE IF req.stockNumber # Undef THEN "stock_number"
  ELSE "filter"

PresentMatches(req, t) ==
  {i \in DOMAIN t :
     /\ Visible(t[i])
     /\ CASE PresentScope(req) = "id" -> i = req.id
          [] PresentScope(req) = "vin" -> t[i]["vin"] = req.vin
          [] PresentScope(req) = "stock_number" -> t[i]["stock_number"] = req.stockNumber
          [] OTHER -> /\ req.make # Undef => ilike(t[i]["make"], req.make)
                      /\ req.model # Undef => ilike(t[i]["model"], req.model)}

\* C7: whenever an identifier is present, the lookup of update-vehicles is
\* scoped by the first of id, vin, stockNumber that is present and ignores
\* make/model; the make/model filter is used only when no identifier is present.
C7_TargetingPrecedence ==
  \A p \in Procs :
    (Configured(p) /\ inv[p].tool = "update-vehicles") =>
      /\ Looked(p) => inv[p].vehicleIds = PresentMatches(inv[p].req, inv[p].seen)
      /\ SuppliedIds(inv[p].req) # {} => inv[p].result.kind # "NoTargetCriteria"

\* the rows the lookup of a single-row tool matched
LookupMatches(p) ==
  LET v == inv[p]
  IN  {i \in DOMAIN v.seen :
         IF v.tool = "delete-vehicle" THEN DeleteMatches(v.req, v.seen[i])
         ELSE Visible(v.seen[i]) /\ IdentifierMatches(v.req, i, v.seen[i])}

\* C8: add-notes, delete-ai-video and delete-vehicle issue a write only when
\* the lookup returned exactly one row; no row gives not-found and several
\* rows give MultipleMatches, both without any write or object-store call.
C8_ExactlyOneRow ==
  \A p \in Procs :
    (inv[p].tool \in SingleRowTools /\ Looked(p)) =>
      /\ LookupMatches(p) = {} =>
           (Done(p) /\ inv[p].result.kind = "NotFound"
              /\ inv[p].writes = 0 /\ inv[p].r2calls = 0 /\ inv[p].written = {})
      /\ Cardinality(LookupMatches(p)) > 1 =>
           (Done(p) /\ inv[p].result.kind = "MultipleMatches"
              /\ inv[p].writes = 0 /\ inv[p].r2calls = 0 /\ inv[p].written = {})
      /\ (inv[p].pc \in {"r2", "write"} \/ inv[p].writes = 1 \/ inv[p].r2calls = 1) =>
           Cardinality(LookupMatches(p)) = 1

C8_Witness ==
  \E p \in Procs :
    /\ inv[p].tool = "delete-vehicle" /\ Looked(p)
    /\ Cardinality(LookupMatches(p)) = 2
    /\ inv[p].result.kind = "MultipleMatches" /\ inv[p].writes = 0
    /\ DOMAIN table = Ids

\* C9: the write of every tool changes rows among the ids captured by its
\* lookup only, and when the store accepts the write it changes exactly the
\* captured ids that exist at write time, whatever rows match the filter then.
C9_WriteByCapturedIds ==
  [][\A p \in Procs :
       (inv[p].pc = "write" /\ inv'[p].pc = "done") =>
         /\ Changed(table, table') \subseteq inv[p].vehicleIds
         /\ inv'[p].result.kind = "Success" =>
              Changed(table, table') = inv[p].vehicleIds \cap DOMAIN table]_vars

C9_Witness ==
  \E p \in Procs :
    /\ inv[p].tool = "update-vehicles" /\ inv[p].result.kind = "Success"
    /\ UpdateScope(inv[p].req) = "filter"
    /\ inv[p].written = inv[p].vehicleIds
    /\ \E i \in DOMAIN table \ inv[p].vehicleIds :
         /\ UpdateMatches(inv[p].req, i, table[i])
         /\ ~UpdateMatches(inv[p].req, i, inv[p].seen[i])

\* C10: for a visible target row with ai_video and stock_number not null,
\* delete-ai-video attempts the object deletion iff the four R2 settings are
\* configured, issues the update of ai_video in each of the three cases, and
\* its response tells which of the three cases occurred.
C10_BestEffortReported ==
  \A p \in Procs :
    (/\ inv[p].tool = "delete-ai-video" /\ Done(p) /\ Looked(p)
     /\ Cardinality(inv[p].vehicleIds) = 1
     /\ inv[p].vehicle.ai_video # Null /\ inv[p].vehicle.stock_number # Null) =>
      /\ inv[p].r2calls = 1 <=> R2Configured(inv[p].env)
      /\ inv[p].writes = 1
      /\ inv[p].result.r2 = R2Report(inv[p].r2DeleteResult)

\* the second of two calls in sequence was made for the row the first call
\* cleaned: its one identifier designates that row and no other visible row
SameRowAgain ==
  /\ inv[1].tool = "delete-ai-video" /\ inv[1].result.kind = "Success"
  /\ inv[2].tool = "delete-ai-video" /\ Configured(2)
  /\ identifierCount(inv[2].req) = 1
  /\ {i \in DOMAIN table : Visible(table[i]) /\ IdentifierMatches(inv[2].req, i, table[i])}
       = inv[1].vehicleIds

\* C11 as stated: the second of two delete-ai-video calls in sequence on the
\* same row returns nothing-to-delete without any object-store call and
\* without any database call, and leaves the store as the first call left it.
C11_SecondCallNoCalls ==
  SameRowAgain =>
    /\ Done(2) /\ inv[2].result.kind = "NoVideo"
    /\ inv[2].reads = 0 /\ inv[2].writes = 0 /\ inv[2].r2calls = 0
    /\ inv[2].written = {}

\* C11 as amended: the second call issues its one lookup and nothing else:
\* no object-store call and no database write; when the lookup succeeds it
\* returns nothing-to-delete, and the row, the table and the bucket are as
\* the first call left them.
C11_SecondCallLookupOnly ==
  SameRowAgain =>
    /\ Done(2) /\ inv[2].result.kind \in {"NoVideo", "ReadError"}
    /\ Looked(2) => (inv[2].result.kind = "NoVideo" /\ inv[2].seen = table)
    /\ inv[2].reads = 1 /\ inv[2].writes = 0 /\ inv[2].r2calls = 0
    /\ inv[2].written = {}
    /\ \A i \in inv[1].vehicleIds :
         /\ table[i]["ai_video"] = Null
         /\ table[i]["updated_at"] = inv[1].updateData["updated_at"]
    /\ inv[1].result.r2 = "deleted" => ObjectKey(inv[1].vehicle.stock_number) \notin bucket

C11_Witness ==
  /\ SameRowAgain /\ Done(2) /\ inv[2].result.kind = "NoVideo"
  /\ inv[2].req.id = 1 /\ inv[1].req.stockNumber = <<"S", "1">>
  /\ inv[1].result.r2 = "deleted"

\* the row a single-row lookup resolved to, as the lookup read it
Target(p) == inv[p].seen[CHOOSE i \in LookupMatches(p) : TRUE]

NoCleanup(p) == inv[p].writes = 0 /\ inv[p].r2calls = 0 /\ inv[p].written = {}

\* C12: when the lookup of delete-ai-video resolves to one visible row, a
\* row without ai_video gives nothing-to-delete and a row with ai_video but
\* without stock_number gives the cannot-derive-path error; in both cases no
\* object-store call and no update is made, whatever the R2 settings.
C12_ShortCircuits ==
  \A p \in Procs :
    (inv[p].tool = "delete-ai-video" /\ Looked(p) /\ Cardinality(LookupMatches(p)) = 1) =>
      /\ Target(p)["ai_video"] = Null =>
           (Done(p) /\ inv[p].result.kind = "NoVideo" /\ NoCleanup(p))
      /\ (Target(p)["ai_video"] # Null /\ Target(p)["stock_number"] = Null) =>
           (Done(p) /\ inv[p].result.kind = "NoStockNumber" /\ NoCleanup(p))

C12_Witness ==
  \E p \in Procs :
    /\ inv[p].tool = "delete-ai-video" /\ Looked(p) /\ Cardinality(LookupMatches(p)) = 1
    /\ Target(p)["ai_video"] # Null /\ Target(p)["stock_number"] = Null
    /\ R2Configured(inv[p].env)
    /\ inv[p].result.kind = "NoStockNumber" /\ NoCleanup(p)

\* C13: add-notes on a visible row resolved by one identifier: notes null or
\* "" store null (never "") and report "deleted"; a non-empty string is
\* stored as given and reported "updated" if the row had notes, "added"
\* otherwise; notes left undefined is rejected before any store call.
C13_NotesClearing ==
  \A p \in Procs :
    (inv[p].tool = "add-notes" /\ Configured(p)) =>
      LET v == inv[p]
          clears == v.req.notes \in {Null, <<>>}
      IN  /\ v.req.notes = Undef =>
               /\ Done(p) /\ NoIO(p)
               /\ v.result.kind \in {"NoIdentifier", "AmbiguousIdentifier", "MissingNotes"}
               /\ identifierCount(v.req) = 1 => v.result.kind = "MissingNotes"
          /\ (v.req.notes # Undef /\ Looked(p) /\ Cardinality(LookupMatches(p)) = 1) =>
               \/ v.pc = "write"
               \/ Done(p) /\ v.writes = 1 /\ v.result.kind \in {"Success", "WriteError"}
          /\ v.result.kind = "Success" =>
               /\ v.written = {v.vehicle.id}
               /\ table[v.vehicle.id]["notes"] = (IF clears THEN Null ELSE v.req.notes)
               /\ table[v.vehicle.id]["notes"] # <<>>
               /\ v.result.action =
                    (IF clears THEN "deleted"
                     ELSE IF Target(p)["notes"] # Null THEN "updated" ELSE "added")

C13_Witness ==
  \E p \in Procs :
    /\ inv[p].tool = "add-notes" /\ inv[p].result.kind = "Success"
    /\ inv[p].req.notes = <<>> /\ Target(p)["notes"] = <<"n">>
    /\ table[inv[p].vehicle.id]["notes"] = Null
    /\ inv[p].result.action = "deleted"

\* the rows of t carrying the vin or the stock number of req, deleted or not
CarryingIdentifier(req, t) ==
  {i \in DOMAIN t :
     IF TruthyS(req.vin) THEN t[i]["vin"] = req.vin
     ELSE t[i]["stock_number"] = req.stockNumber}

\* C14: the lookup of delete-vehicle matches the rows carrying the given vin
\* or stockNumber whether or not they are soft-deleted; a successful call
\* removes the one matched row and leaves every other row as it was; no
\* step of add-notes or delete-ai-video removes a row.
C14_HardDelete ==
  [][\A p \in Procs :
       /\ (/\ inv[p].pc = "idle" /\ inv'[p].tool = "delete-vehicle"
           /\ inv'[p].reads = 1 /\ inv'[p].result.kind # "ReadError") =>
            LET M == CarryingIdentifier(inv'[p].req, table)
            IN  /\ M = {} <=> inv'[p].result.kind = "NotFound"
                /\ Cardinality(M) = 1 => (inv'[p].pc = "write" /\ inv'[p].vehicleIds = M)
       /\ (/\ inv[p].tool = "delete-vehicle" /\ inv[p].pc = "write"
           /\ inv'[p].result.kind = "Success") =>
            /\ DOMAIN table' = DOMAIN table \ inv[p].vehicleIds
            /\ \A i \in DOMAIN table' : table'[i] = table[i]
       /\ (inv'[p] # inv[p] /\ inv'[p].tool \in NotesOrVideo) =>
            DOMAIN table' = DOMAIN table]_vars

C14_Witness ==
  \E p \in Procs :
    /\ inv[p].tool = "delete-vehicle" /\ inv[p].result.kind = "Success"
    /\ ~Visible(inv[p].seen[inv[p].vehicle.id])
    /\ inv[p].vehicle.id \notin DOMAIN table
    /\ DOMAIN table = DOMAIN inv[p].seen \ {inv[p].vehicle.id}
    /\ \A i \in DOMAIN table : table[i] = inv[p].seen[i]

\* filter parameter f was passed by the caller
FilterSupplied(req, f) == IF f \in NumFilters THEN req[f] # UndefN ELSE req[f] # Undef

\* the predicate C15 gives filter parameter f on a row
FilterPredicate(req, f, row) ==
  LET col == row[FilterColumn(f)]
  IN  CASE f \in TextFilters -> ilike(col, req[f])
        [] f = "year" -> (col # NullN /\ col = req[f])
        [] f \in {"minYear", "minPrice"} -> (col # NullN /\ col >= req[f])
        [] f \in {"maxYear", "maxPrice", "maxOdometer"} -> (col # NullN /\ col <= req[f])
        [] f = "hasPrice" -> (IF req[f] = <<"true">> THEN col # NullN ELSE col = NullN)

\* the ids of the rows a get-vehicles call returned
ReturnedIds(p) ==
  IF inv[p].result.kind = "Found"
  THEN {inv[p].result.rows[k]["id"] : k \in 1..Len(inv[p].result.rows)}
  ELSE {}

\* C15: a get-vehicles call without limit returns exactly the visible rows
\* that satisfy the predicate of every supplied filter: case-insensitive
\* containment for the text filters, equality for year (ANDed with minYear
\* and maxYear), inclusive bounds for minPrice, maxPrice and maxOdometer,
\* price not null / null for hasPrice true / false.
C15_FilterSemantics ==
  \A p \in Procs :
    (/\ inv[p].tool \in {"get-vehicles", "get-vehicles-filters"} /\ Looked(p)
     /\ inv[p].tool = "get-vehicles" => inv[p].req.limit = UndefN) =>
      ReturnedIds(p) =
        {i \in DOMAIN inv[p].seen :
           /\ Visible(inv[p].seen[i])
           /\ \A f \in FilterParams :
                FilterSupplied(inv[p].req, f) => FilterPredicate(inv[p].req, f, inv[p].seen[i])}

\* an update-vehicles call by vin with a new price that found one visible
\* row with that VIN and whose write the store applied to that row
PriceByVinApplied(p) ==
  /\ inv[p].tool = "update-vehicles" /\ inv[p].result.kind = "Success"
  /\ UpdateScope(inv[p].req) = "vin" /\ inv[p].req.price # UndefN
  /\ Cardinality(inv[p].vehicleIds) = 1 /\ inv[p].written = inv[p].vehicleIds

\* C16 as stated: such a call updates the one row (new price, updated_at of
\* the call), reports one vehicle, and the projection the write returns
\* includes the new price and the fresh updated_at.
C16_ProjectionHasPrice ==
  \A p \in Procs :
    PriceByVinApplied(p) =>
      /\ \A i \in inv[p].vehicleIds :
           /\ table[i]["price"] = inv[p].req.price
           /\ table[i]["updated_at"] = inv[p].updateData["updated_at"]
      /\ Cardinality(inv[p].result.rows) = 1
      /\ \A r \in inv[p].result.rows :
           /\ "price" \in DOMAIN r /\ "updated_at" \in DOMAIN r
           /\ r["price"] = inv[p].req.price
           /\ r["updated_at"] = inv[p].updateData["updated_at"]

\* C16 as amended: the call updates the one row (new price, updated_at of
\* the call) and reports one vehicle; the projection the write returns
\* holds id, year, make, model and vin of the row.  Every successful write
\* of update-vehicles, add-notes and delete-ai-video sets updated_at on
\* each row it modifies: to the clock's reading when updateData was built.
C16_UpdateStamps ==
  [][\A p \in Procs :
       /\ (inv[p].pc = "idle" /\ inv'[p].tool = "update-vehicles" /\ inv'[p].pc = "write") =>
            inv'[p].updateData["updated_at"] = now
       /\ (inv[p].pc = "write" /\ inv'[p].pc = "done" /\ inv[p].tool \in NotesOrVideo) =>
            inv'[p].updateData["updated_at"] = now
       /\ (/\ inv[p].pc = "write" /\ inv[p].tool \in NotesOrVideo \cup {"update-vehicles"}
           /\ inv'[p].result.kind = "Success") =>
            /\ \A i \in Changed(table, table') :
                 /\ i \in DOMAIN table'
                 /\ table'[i]["updated_at"] = inv'[p].updateData["updated_at"]
                 /\ table'[i]["updated_at"] > table[i]["updated_at"]
            /\ (/\ inv[p].tool = "update-vehicles" /\ UpdateScope(inv[p].req) = "vin"
                /\ inv[p].req.price # UndefN /\ Cardinality(inv[p].vehicleIds) = 1
                /\ inv[p].vehicleIds \subseteq DOMAIN table) =>
                 /\ Changed(table, table') = inv[p].vehicleIds
                 /\ \A i \in inv[p].vehicleIds : table'[i]["price"] = inv[p].req.price
                 /\ inv'[p].result.rows =
                      { [c \in {"id", "year", "make", "model", "vin"} |->
                           IF c = "id" THEN i ELSE table'[i][c]] : i \in inv[p].vehicleIds }]_vars

C16_Witness ==
  \E p \in Procs :
    /\ PriceByVinApplied(p)
    /\ inv[p].req.vin = <<"V", "1">> /\ inv[p].req.price = 0
    /\ inv[p].written = {1}
    /\ inv[p].seen[1]["price"] = 7 /\ table[1]["price"] = 0
    /\ table[1]["updated_at"] = inv[p].updateData["updated_at"]
    /\ Cardinality(inv[p].result.rows) = 1

\* C17: get-vehicles as the README documents it: limit defaults to 5 and
\* offset to 0; a call returns at most `limit` vehicles, namely the rows at
\* positions offset .. offset + limit - 1 of the result order.
C17_Pagination ==
  \A p \in Procs :
    (inv[p].tool \in GetTools /\ Looked(p)) =>
      LET req == inv[p].req
          L == IF "limit" \in DOMAIN req /\ req.limit # UndefN THEN req.limit ELSE DefaultLimit
          O == IF "offset" \in DOMAIN req /\ req.offset # UndefN THEN req.offset ELSE DefaultOffset
          last == IF O + L > Len(inv[p].order) THEN Len(inv[p].order) ELSE O + L
          page == SubSeq(inv[p].order, O + 1, last)
      IN  /\ Cardinality(ReturnedIds(p)) <= L
          /\ IF inv[p].result.kind = "Found"
             THEN inv[p].result.rows = RowsOf(inv[p].seen, page)
             ELSE page = <<>>

\* C18: whatever the external writer does between the lookup and the write
\* of update-vehicles, add-notes or delete-ai-video, the write modifies no
\* row that is soft-deleted at the moment of the write.
C18_NoWriteToSoftDeleted ==
  [][\A p \in Procs :
       (/\ inv[p].pc = "write" /\ inv'[p].pc = "done"
        /\ inv[p].tool \in NotesOrVideo \cup {"update-vehicles"}) =>
         \A i \in Changed(table, table') : Visible(table[i])]_vars

\* C19: delete-ai-video calls the object store only after its update of
\* ai_video has succeeded, so no invocation ends with the object deleted
\* while the row still has its ai_video.
C19_CleanupAfterMutation ==
  \A p \in Procs :
    inv[p].tool = "delete-ai-video" =>
      /\ inv[p].r2calls = 1 =>
           (inv[p].writes = 1 /\ inv[p].written = {inv[p].vehicle.id})
      /\ (Done(p) /\ inv[p].r2DeleteResult = "success" /\ inv[p].vehicle.id \in DOMAIN table) =>
           table[inv[p].vehicle.id]["ai_video"] = Null

\* C20: when update-vehicles targets by id, vin or stockNumber and the
\* lookup returns more than one visible row, the call ends with the
\* data-integrity error and modifies no row.
C20_SingleRowIntegrity ==
  \A p \in Procs :
    (/\ inv[p].tool = "update-vehicles" /\ Looked(p)
     /\ UpdateScope(inv[p].req) \in {"id", "vin", "stock_number"}
     /\ Cardinality({i \in DOMAIN inv[p].seen :
                       UpdateMatches(inv[p].req, i, inv[p].seen[i])}) > 1) =>
      /\ Done(p) /\ inv[p].result.kind = "MultipleMatches"
      /\ inv[p].writes = 0 /\ inv[p].written = {}

\* C21: the assignment set of update-vehicles holds updated_at and a column
\* exactly for each supplied field; a text field supplied as the empty
\* string is assigned null, so that the stored column is null, not "".
C21_EmptyNormalized ==
  \A p \in Procs :
    (/\ inv[p].tool = "update-vehicles" /\ Configured(p)) =>
      LET v == inv[p]
      IN  /\ DOMAIN v.updateData =
               {"updated_at"} \cup {ColumnOf(f) : f \in {g \in UpdParams : Supplied(v.req, g)}}
          /\ \A f \in TextParams :
               v.req[f] = <<>> =>
                 /\ v.updateData[ColumnOf(f)] = Null
                 /\ v.result.kind = "Success" =>
                      \A i \in v.written \cap DOMAIN table : table[i][ColumnOf(f)] = Null

\* C22: a field supplied with an empty or zero value is not dropped: it
\* counts as a supplied identifier or target criterion, its filter predicate
\* holds of every returned row, and a supplied limit bounds the result.
C22_AbsentVersusEmpty ==
  \A p \in Procs :
    Configured(p) =>
      LET v == inv[p]
      IN  /\ (v.tool \in SingleRowTools /\ SuppliedIds(v.req) # {}) =>
               v.result.kind # "NoIdentifier"
          /\ (/\ v.tool = "update-vehicles"
              /\ \E f \in {"id", "vin", "stockNumber", "make", "model"} : Supplied(v.req, f)) =>
               v.result.kind # "NoTargetCriteria"
          /\ (v.tool \in {"get-vehicles", "get-vehicles-filters"} /\ v.result.kind = "Found") =>
               /\ \A f \in FilterParams :
                    FilterSupplied(v.req, f) =>
                      \A i \in ReturnedIds(p) : FilterPredicate(v.req, f, v.seen[i])
               /\ (v.tool = "get-vehicles" /\ v.req.limit # UndefN) =>
                    Len(v.result.rows) <= v.req.limit

\* the columns a request assigns besides updated_at, and the value it gives them
AssignedColumns(req) == {ColumnOf(f) : f \in {g \in UpdParams : Supplied(req, g)}}

AssignedValue(req, c) == req[CHOOSE f \in UpdParams : ColumnOf(f) = c]

BothSucceeded(v) ==
  \A p \in Procs : v[p].tool = "update-vehicles" /\ v[p].result.kind = "Success"

\* C23: with two update-vehicles calls in flight, every write succeeds and
\* sets, on the ids its call captured, the columns its request supplies and
\* updated_at, leaving every other column and row as they are; so once
\* both calls have succeeded, on a row targeted by both a column assigned by
\* one call only holds that call's value and a column assigned by both
\* holds the value of the later write.
C23_LastWriteWins ==
  [][/\ \A p \in Procs :
          (inv[p].pc = "write" /\ inv'[p].pc = "done") =>
            /\ inv'[p].result.kind = "Success"
            /\ DOMAIN table' = DOMAIN table
            /\ \A i \in DOMAIN table, c \in Columns :
                 table'[i][c] =
                   IF i \in inv[p].vehicleIds /\ c = "updated_at"
                   THEN inv[p].updateData["updated_at"]
                   ELSE IF i \in inv[p].vehicleIds /\ c \in AssignedColumns(inv[p].req)
                   THEN AssignedValue(inv[p].req, c)
                   ELSE table[i][c]
     /\ BothSucceeded(inv') =>
          \A i \in inv'[1].vehicleIds \cap inv'[2].vehicleIds, p \in Procs :
            LET q == CHOOSE r \in Procs : r # p
            IN  \A c \in AssignedColumns(inv'[p].req) :
                  \/ table'[i][c] = AssignedValue(inv'[p].req, c)
                  \/ /\ c \in AssignedColumns(inv'[q].req)
                     /\ table'[i][c] = AssignedValue(inv'[q].req, c)]_vars

C23_Witness ==
  /\ BothSucceeded(inv)
  /\ 1 \in inv[1].written \cap inv[2].written
  /\ inv[1].req.price = 0 /\ inv[1].req.colour = <<"x">>
  /\ inv[2].req.price = 7 /\ inv[2].req.colour = Undef
  /\ table[1]["price"] = 7 /\ table[1]["colour"] = <<"x">>
  /\ table[1]["updated_at"] = inv[2].updateData["updated_at"]
  /\ inv[2].updateData["updated_at"] < inv[1].updateData["updated_at"]

====
